---- MODULE Spec2Model ----
(***************************************************************************)
(* A model of ckan/model/license.py (License, LicenseRegister,             *)
(* DefaultLicense and the built-in licenses) and of                        *)
(* ckan/model/package_extra.py (PackageExtra and the Package.extras view). *)
(*                                                                         *)
(* Three specifications share the module:                                  *)
(*   SpecRecord   one License record: construction, attribute access,      *)
(*                isopen()                                                 *)
(*   SpecCatalog  one LicenseRegister: construction and its methods        *)
(*   SpecExtras   packages and their PackageExtra records                  *)
(***************************************************************************)
EXTENDS Integers, Sequences, FiniteSets, TLC

VARIABLES
    pc,         \* "new", "ready" (constructed) or "failed" (the constructor raised)
    desc,       \* the descriptor the License record was constructed from
    lic,        \* the License record: [data, inst]
    config,     \* config['licenses_group_url']
    licenses,   \* LicenseRegister.licenses, or Unset before it is assigned
    origin,     \* what licenses was last built from: "unset", "builtin" or "loaded"
    last,       \* the last call and what it returned or raised
    packages,   \* the Package objects of the session
    extras,     \* PackageExtra records by identity: [package, key, value]
    col,        \* Package._extras: package -> (collection key -> record identity)
    nextId      \* the next PackageExtra identity

vars == <<pc, desc, lic, config, licenses, origin, last, packages, extras, col, nextId>>

recordVars == <<pc, desc, lic>>
catalogVars == <<config, licenses, origin>>
extrasVars == <<packages, extras, col, nextId>>

(***************************************************************************)
(* Python values and outcomes                                              *)
(***************************************************************************)
None == [none |-> TRUE]
Unset == [unset |-> TRUE]
NoCall == [op |-> "none"]

Ok(v) == [ok |-> TRUE, val |-> v]
Raise(e, a) == [ok |-> FALSE, exc |-> e, arg |-> a]

EmptyDict == [k \in {} |-> None]
DictSet(f, k, v) == [x \in (DOMAIN f) \cup {k} |-> IF x = k THEN v ELSE f[x]]
DictDel(f, k) == [x \in (DOMAIN f) \ {k} |-> f[x]]

\* JSON scalars that may stand where a boolean is expected
JBool(b) == [bool |-> b]
JStr(s) == [str |-> s]

\* ckan.common.asbool: strings are compared with the truthy and falsy words,
\* anything else goes through bool()
asbool(obj) ==
    IF "str" \in DOMAIN obj
    THEN IF obj.str \in {"true", "yes", "on", "y", "t", "1"} THEN Ok(TRUE)
         ELSE IF obj.str \in {"false", "no", "off", "n", "f", "0"} THEN Ok(FALSE)
         ELSE Raise("ValueError", [msg |-> obj.str])
    ELSE Ok(obj.bool)

\* ckan.common._ : the translation of a message
Translate(msg) == "tr:" \o msg

(***************************************************************************)
(* DefaultLicense                                                          *)
(***************************************************************************)
_keys ==
    {"domain_content", "id", "domain_data", "domain_software", "family",
     "is_generic", "od_conformance", "osd_conformance", "maintainer",
     "status", "url", "title"}

DefaultLicenseAttrs ==
    [domain_content |-> FALSE, domain_data |-> FALSE, domain_software |-> FALSE,
     family |-> "", is_generic |-> FALSE, od_conformance |-> "not reviewed",
     osd_conformance |-> "not reviewed", maintainer |-> "", status |-> "active",
     url |-> "", title |-> "", id |-> ""]

\* An instance of a DefaultLicense subclass: a dict that holds no items and
\* answers __getitem__ from the class attributes.
DefaultLicense(overrides) ==
    [cls |-> "DefaultLicense",
     items |-> EmptyDict,
     attrs |-> [k \in _keys |->
                  IF k \in DOMAIN overrides THEN overrides[k]
                  ELSE DefaultLicenseAttrs[k]]]

\* A plain dict, as json.load produces it
Dict(items) == [cls |-> "dict", items |-> items, attrs |-> EmptyDict]

LicenseNotSpecified ==
    DefaultLicense([id |-> "notspecified", is_generic |-> TRUE,
                    title |-> Translate("License not specified")])
LicenseOpenDataCommonsPDDL ==
    DefaultLicense([domain_data |-> TRUE, id |-> "odc-pddl",
                    od_conformance |-> "approved",
                    url |-> "http://www.opendefinition.org/licenses/odc-pddl",
                    title |-> Translate("Open Data Commons Public Domain Dedication and License (PDDL)")])
LicenseOpenDataCommonsOpenDatabase ==
    DefaultLicense([domain_data |-> TRUE, id |-> "odc-odbl",
                    od_conformance |-> "approved",
                    url |-> "http://www.opendefinition.org/licenses/odc-odbl",
                    title |-> Translate("Open Data Commons Open Database License (ODbL)")])
LicenseOpenDataAttribution ==
    DefaultLicense([domain_data |-> TRUE, id |-> "odc-by",
                    od_conformance |-> "approved",
                    url |-> "http://www.opendefinition.org/licenses/odc-by",
                    title |-> Translate("Open Data Commons Attribution License")])
LicenseCreativeCommonsZero ==
    DefaultLicense([domain_content |-> TRUE, domain_data |-> TRUE, id |-> "cc-zero",
                    od_conformance |-> "approved",
                    url |-> "http://www.opendefinition.org/licenses/cc-zero",
                    title |-> Translate("Creative Commons CCZero")])
LicenseCreativeCommonsAttribution ==
    DefaultLicense([id |-> "cc-by", od_conformance |-> "approved",
                    url |-> "http://www.opendefinition.org/licenses/cc-by",
                    title |-> Translate("Creative Commons Attribution")])
LicenseCreativeCommonsAttributionShareAlike ==
    DefaultLicense([domain_content |-> TRUE, id |-> "cc-by-sa",
                    od_conformance |-> "approved",
                    url |-> "http://www.opendefinition.org/licenses/cc-by-sa",
                    title |-> Translate("Creative Commons Attribution Share-Alike")])
LicenseGNUFreeDocument ==
    DefaultLicense([domain_content |-> TRUE, id |-> "gfdl",
                    od_conformance |-> "approved",
                    url |-> "http://www.opendefinition.org/licenses/gfdl",
                    title |-> Translate("GNU Free Documentation License")])
LicenseOtherOpen ==
    DefaultLicense([domain_content |-> TRUE, id |-> "other-open", is_generic |-> TRUE,
                    od_conformance |-> "approved",
                    title |-> Translate("Other (Open)")])
LicenseOtherPublicDomain ==
    DefaultLicense([domain_content |-> TRUE, id |-> "other-pd", is_generic |-> TRUE,
                    od_conformance |-> "approved",
                    title |-> Translate("Other (Public Domain)")])
LicenseOtherAttribution ==
    DefaultLicense([domain_content |-> TRUE, id |-> "other-at", is_generic |-> TRUE,
                    od_conformance |-> "approved",
                    title |-> Translate("Other (Attribution)")])
LicenseOpenGovernment ==
    DefaultLicense([domain_content |-> TRUE, id |-> "uk-ogl",
                    od_conformance |-> "approved",
                    url |-> "http://reference.data.gov.uk/id/open-government-licence",
                    title |-> Translate("UK Open Government Licence (OGL)")])
LicenseCreativeCommonsNonCommercial ==
    DefaultLicense([id |-> "cc-nc",
                    url |-> "http://creativecommons.org/licenses/by-nc/2.0/",
                    title |-> Translate("Creative Commons Non-Commercial (Any)")])
LicenseOtherNonCommercial ==
    DefaultLicense([id |-> "other-nc", is_generic |-> TRUE,
                    title |-> Translate("Other (Non-Commercial)")])
LicenseOtherClosed ==
    DefaultLicense([id |-> "other-closed", is_generic |-> TRUE,
                    title |-> Translate("Other (Not Open)")])

\* the built-in list with two licenses in each other's place
default_license_list_Swapped ==
    <<LicenseNotSpecified,
      LicenseOpenDataCommonsPDDL,
      LicenseOpenDataCommonsOpenDatabase,
      LicenseOpenDataAttribution,
      LicenseCreativeCommonsZero,
      LicenseCreativeCommonsAttributionShareAlike,
      LicenseCreativeCommonsAttribution,
      LicenseGNUFreeDocument,
      LicenseOtherOpen,
      LicenseOtherPublicDomain,
      LicenseOtherAttribution,
      LicenseOpenGovernment,
      LicenseCreativeCommonsNonCommercial,
      LicenseOtherNonCommercial,
      LicenseOtherClosed>>

\* LicenseRegister.__init__: the list built when no licenses_group_url is set
default_license_list ==
    <<LicenseNotSpecified,
      LicenseOpenDataCommonsPDDL,
      LicenseOpenDataCommonsOpenDatabase,
      LicenseOpenDataAttribution,
      LicenseCreativeCommonsZero,
      LicenseCreativeCommonsAttribution,
      LicenseCreativeCommonsAttributionShareAlike,
      LicenseGNUFreeDocument,
      LicenseOtherOpen,
      LicenseOtherPublicDomain,
      LicenseOtherAttribution,
      LicenseOpenGovernment,
      LicenseCreativeCommonsNonCommercial,
      LicenseOtherNonCommercial,
      LicenseOtherClosed>>

\* `key in data`: dict.__contains__, which DefaultLicense does not override
Contains(data, key) == key \in DOMAIN data.items

\* data[key]: dict.__getitem__, or DefaultLicense.__getitem__
DataGetItem(data, key) ==
    IF data.cls = "DefaultLicense"
    THEN IF key \in _keys THEN Ok(data.attrs[key]) ELSE Raise("KeyError", [msg |-> key])
    ELSE IF key \in DOMAIN data.items THEN Ok(data.items[key])
         ELSE Raise("KeyError", [msg |-> key])

(***************************************************************************)
(* License.__init__                                                        *)
(***************************************************************************)
DigitChars == <<"0", "1", "2", "3", "4", "5", "6", "7", "8", "9">>
IsDigit(c) == \E i \in DOMAIN DigitChars : DigitChars[i] = c
DigitVal(c) == (CHOOSE i \in DOMAIN DigitChars : DigitChars[i] = c) - 1

\* re.split(r'[^\d]', value): every non-digit character ends an item
RECURSIVE ReSplit(_, _, _)
ReSplit(s, i, cur) ==
    IF i > Len(s) THEN <<cur>>
    ELSE IF IsDigit(s[i]) THEN ReSplit(s, i + 1, Append(cur, s[i]))
    ELSE <<cur>> \o ReSplit(s, i + 1, <<>>)

\* int(item) of a string of digits; int('') raises ValueError
RECURSIVE IntOfDigits(_, _)
IntOfDigits(item, acc) ==
    IF item = <<>> THEN acc
    ELSE IntOfDigits(Tail(item), acc * 10 + DigitVal(Head(item)))

IsLeap(y) == (y % 4 = 0) /\ ((y % 100 # 0) \/ (y % 400 = 0))
DaysInMonth(y, m) ==
    IF m = 2 THEN (IF IsLeap(y) THEN 29 ELSE 28)
    ELSE IF m \in {4, 6, 9, 11} THEN 30 ELSE 31

\* datetime.datetime(*args) on integers
Datetime(args) ==
    IF Len(args) < 3 \/ Len(args) > 7 THEN Raise("TypeError", [msg |-> "datetime"])
    ELSE IF /\ args[1] \in 1..9999
            /\ args[2] \in 1..12
            /\ args[3] \in 1..DaysInMonth(args[1], args[2])
            /\ (Len(args) >= 4 => args[4] \in 0..23)
            /\ (Len(args) >= 5 => args[5] \in 0..59)
            /\ (Len(args) >= 6 => args[6] \in 0..59)
            /\ (Len(args) >= 7 => args[7] \in 0..999999)
         THEN Ok([datetime |-> args])
         ELSE Raise("ValueError", [msg |-> "datetime"])

\* lines 39-42: the date_created string parsed as an ISO date-time
ParseDateCreated(value) ==
    LET parts == ReSplit(value, 1, <<>>) IN
    IF \E i \in DOMAIN parts : parts[i] = <<>>
    THEN Raise("ValueError", [msg |-> "int"])
    ELSE Datetime([i \in DOMAIN parts |-> IntOfDigits(parts[i], 0)])

\* ConvertOldKey without the `del data[old]`
ConvertOldKeyKeep(items, old, new) ==
    IF old \in DOMAIN items
    THEN LET b == asbool(items[old]) IN
         IF b.ok
         THEN Ok(DictSet(items, new, IF b.val THEN "approved" ELSE ""))
         ELSE b
    ELSE Ok(items)

\* lines 26-29 and 30-33: one legacy key converted to its conformance key
ConvertOldKey(items, old, new) ==
    IF old \in DOMAIN items
    THEN LET b == asbool(items[old]) IN
         IF b.ok
         THEN Ok(DictDel(DictSet(items, new, IF b.val THEN "approved" ELSE ""), old))
         ELSE b
    ELSE Ok(items)

\* lines 36-49: date_created is parsed; a str value is stored back as it is
ConvertValues(items) ==
    IF "date_created" \in DOMAIN items
    THEN LET d == ParseDateCreated(items["date_created"]) IN
         IF d.ok THEN Ok(DictSet(items, "date_created", d.val)) ELSE d
    ELSE Ok(items)

\* License(data): the record, or the exception the constructor raises
License(data) ==
    LET a == ConvertOldKey(data.items, "is_okd_compliant", "od_conformance") IN
    IF ~a.ok THEN a
    ELSE LET b == ConvertOldKey(a.val, "is_osi_compliant", "osd_conformance") IN
         IF ~b.ok THEN b
         ELSE LET c == ConvertValues(b.val) IN
              IF ~c.ok THEN c
              ELSE Ok([data |-> [data EXCEPT !.items = c.val],
                       inst |-> EmptyDict])

(***************************************************************************)
(* License attribute access and isopen()                                   *)
(***************************************************************************)
\* License.__getattr__ without the conversion of KeyError
License_getattr_NoConvert(self, name) ==
    IF name = "is_okd_compliant"
    THEN LET r == DataGetItem(self.data, "od_conformance") IN
         IF r.ok THEN Ok(r.val = "approved") ELSE r
    ELSE IF name = "is_osi_compliant"
    THEN LET r == DataGetItem(self.data, "osd_conformance") IN
         IF r.ok THEN Ok(r.val = "approved") ELSE r
    ELSE DataGetItem(self.data, name)

\* License.__getattr__(name), the fallback of attribute access
License_getattr(self, name) ==
    IF name = "is_okd_compliant"
    THEN LET r == DataGetItem(self.data, "od_conformance") IN
         IF r.ok THEN Ok(r.val = "approved") ELSE r
    ELSE IF name = "is_osi_compliant"
    THEN LET r == DataGetItem(self.data, "osd_conformance") IN
         IF r.ok THEN Ok(r.val = "approved") ELSE r
    ELSE LET r == DataGetItem(self.data, name) IN
         IF r.ok THEN r ELSE Raise("AttributeError", r.arg)

\* what the License class itself defines
LicenseMethods == {"isopen", "as_dict", "__getitem__", "__getattr__", "__init__"}

\* license.<name>: the instance and the class are looked up first, and
\* __getattr__ only when they have no such attribute
GetAttr(self, name) ==
    IF name = "_data" THEN Ok(self.data)
    ELSE IF name \in DOMAIN self.inst THEN Ok(self.inst[name])
    ELSE IF name \in LicenseMethods THEN Ok([method |-> name])
    ELSE License_getattr(self, name)

\* hasattr(self, name): only AttributeError counts as absent
HasAttr(self, name) ==
    LET r == GetAttr(self, name) IN
    IF r.ok THEN Ok(TRUE)
    ELSE IF r.exc = "AttributeError" THEN Ok(FALSE) ELSE r

\* License.isopen(): [res, self] with the record as the call leaves it
isopen(self) ==
    LET h == HasAttr(self, "_isopen") IN
    IF ~h.ok THEN [res |-> h, self |-> self]
    ELSE IF h.val THEN [res |-> GetAttr(self, "_isopen"), self |-> self]
    ELSE LET od == GetAttr(self, "od_conformance") IN
         IF ~od.ok THEN [res |-> od, self |-> self]
         ELSE IF od.val = "approved"
         THEN [res |-> Ok(TRUE),
               self |-> [self EXCEPT !.inst = DictSet(@, "_isopen", TRUE)]]
         ELSE LET osd == GetAttr(self, "osd_conformance") IN
              IF ~osd.ok THEN [res |-> osd, self |-> self]
              ELSE [res |-> Ok(osd.val = "approved"),
                    self |-> [self EXCEPT !.inst =
                                 DictSet(@, "_isopen", osd.val = "approved")]]

(***************************************************************************)
(* SpecRecord: one License record                                          *)
(***************************************************************************)
Call(op, arg, res) == [op |-> op, arg |-> arg, res |-> res]

\* a key that is absent, or present with one of the values
Field(key, values) == {EmptyDict} \cup {key :> v : v \in values}

LegacyValues == {JBool(TRUE), JBool(FALSE), JStr("false"), JStr("maybe")}

DateValues ==
    {<<"2", "0", "2", "0", "-", "0", "2", "-", "2", "9">>,
     <<"2", "0", "2", "1", "-", "0", "2", "-", "2", "9">>,
     <<"2", "0", "2", "0", "-", "0", "2">>,
     <<"2", "0", "2", "0", "-", "0", "2", "-", "2", "9", "T", "1", "0", ":", "3", "0", "Z">>}

\* the descriptors a source may hold: any subset of these keys
RecordDescriptors ==
    {Dict(a @@ b @@ c @@ d @@ e @@ f) :
        a \in Field("id", {"a"}),
        b \in Field("od_conformance", {"approved", "not reviewed"}),
        c \in Field("osd_conformance", {"approved", ""}),
        d \in Field("is_okd_compliant", LegacyValues),
        e \in Field("is_osi_compliant", LegacyValues),
        f \in Field("date_created", DateValues)}

BuiltinDescriptors == {default_license_list[i] : i \in DOMAIN default_license_list}

AttrNames ==
    {"id", "title", "od_conformance", "osd_conformance", "is_okd_compliant",
     "is_osi_compliant", "date_created", "nonexistent_field", "_isopen",
     "isopen", "_data"}

InitRecord ==
    /\ pc = "new"
    /\ desc = Unset
    /\ lic = Unset
    /\ config = None
    /\ licenses = Unset
    /\ origin = "unset"
    /\ last = NoCall
    /\ packages = {}
    /\ extras = EmptyDict
    /\ col = EmptyDict
    /\ nextId = 1

Construct(data) ==
    /\ pc = "new"
    /\ LET r == License(data) IN
       /\ desc' = data
       /\ lic' = IF r.ok THEN r.val ELSE Unset
       /\ pc' = IF r.ok THEN "ready" ELSE "failed"
       /\ last' = Call("License", None, r)
    /\ UNCHANGED <<catalogVars, extrasVars>>

NewLicense == \E data \in RecordDescriptors : Construct(data)

NewDefaultLicense == \E data \in BuiltinDescriptors : Construct(data)

\* license.<name>
AttrAccess ==
    /\ pc = "ready"
    /\ \E name \in AttrNames : last' = Call("getattr", name, GetAttr(lic, name))
    /\ UNCHANGED <<recordVars, catalogVars, extrasVars>>

\* license[key], the deprecated License.__getitem__
ItemAccess ==
    /\ pc = "ready"
    /\ \E key \in AttrNames : last' = Call("getitem", key, License_getattr(lic, key))
    /\ UNCHANGED <<recordVars, catalogVars, extrasVars>>

\* license.isopen()
CallIsopen ==
    /\ pc = "ready"
    /\ LET r == isopen(lic) IN
       /\ lic' = r.self
       /\ last' = Call("isopen", None, r.res)
    /\ UNCHANGED <<pc, desc, catalogVars, extrasVars>>

NextRecord ==
    \/ NewLicense
    \/ NewDefaultLicense
    \/ AttrAccess
    \/ ItemAccess
    \/ CallIsopen

SpecRecord == InitRecord /\ [][NextRecord]_vars

(***************************************************************************)
(* LicenseRegister                                                         *)
(***************************************************************************)
MaxDocLen == 2

JNum(n) == [num |-> n]
JList(elems) == [list |-> elems]
JObject(pairs) == [dict |-> pairs]   \* <<[key, value], ...>> in insertion order

IsStr(x) == "str" \in DOMAIN x
IsDict(x) == "cls" \in DOMAIN x

\* the characters of a string; the strings of a document have at most one
StrChars(s) == IF s = "" THEN <<>> ELSE <<s>>

FileUrl == [scheme |-> "file://", rest |-> "/etc/ckan/licenses.json"]
HttpUrl == [scheme |-> "http://", rest |-> "licenses.example.org/all.json"]
EmptyUrl == [scheme |-> "", rest |-> ""]

\* `if group_url:`
Truthy(url) == url # None /\ url # EmptyUrl

\* line 146: what `for license in license_data` iterates over
Iterate(license_data) ==
    IF "list" \in DOMAIN license_data THEN Ok(license_data.list)
    ELSE IF "dict" \in DOMAIN license_data
    THEN Ok([i \in DOMAIN license_data.dict |-> JStr(license_data.dict[i].key)])
    ELSE IF IsStr(license_data)
    THEN Ok([i \in DOMAIN StrChars(license_data.str) |->
               JStr(StrChars(license_data.str)[i])])
    ELSE Raise("TypeError", [msg |-> "object is not iterable"])

\* line 148: license_data[license] for a string
Subscript(license_data, name) ==
    IF "dict" \in DOMAIN license_data
    THEN LET hit == {i \in DOMAIN license_data.dict : license_data.dict[i].key = name} IN
         IF hit = {} THEN Raise("KeyError", [msg |-> name])
         ELSE Ok(license_data.dict[CHOOSE i \in hit : TRUE].value)
    ELSE Raise("TypeError", [msg |-> "indices must be integers"])

\* lines 149-150 on the descriptor at position i: the title, when there is a
\* non-empty one, is replaced by its translation
TranslateTitle(license) ==
    IF ~IsDict(license) THEN Raise("AttributeError", [msg |-> "get"])
    ELSE IF Contains(license, "title") /\ license.items["title"] # ""
    THEN Ok([license EXCEPT !.items["title"] = Translate(@)])
    ELSE Ok(license)

PutBack(license_data, i, license) ==
    IF "list" \in DOMAIN license_data
    THEN [license_data EXCEPT !.list[i] = license]
    ELSE IF "dict" \in DOMAIN license_data
    THEN [license_data EXCEPT !.dict[i].value = license]
    ELSE license_data

\* lines 146-150, from position i on
RECURSIVE TranslateTitles(_, _, _)
TranslateTitles(license_data, it, i) ==
    IF i > Len(it) THEN Ok(license_data)
    ELSE LET license == IF IsStr(it[i]) THEN Subscript(license_data, it[i].str)
                        ELSE Ok(it[i]) IN
         IF ~license.ok THEN license
         ELSE LET t == TranslateTitle(license.val) IN
              IF ~t.ok THEN t
              ELSE TranslateTitles(PutBack(license_data, i, t.val), it, i + 1)

\* [License(entity) for entity in entities]
RECURSIVE LicenseList(_)
LicenseList(entities) ==
    IF entities = <<>> THEN Ok(<<>>)
    ELSE LET h == License(Head(entities)) IN
         IF ~h.ok THEN h
         ELSE LET t == LicenseList(Tail(entities)) IN
              IF ~t.ok THEN t ELSE Ok(<<h.val>> \o t.val)

\* LicenseRegister._create_license_list
_create_license_list(license_data, license_url) ==
    IF "dict" \in DOMAIN license_data
    THEN LicenseList([i \in DOMAIN license_data.dict |-> license_data.dict[i].value])
    ELSE IF "list" \in DOMAIN license_data
    THEN LicenseList(license_data.list)
    ELSE Raise("ValueError",
               [msg |-> "Licenses at %s must be dictionary or list", url |-> license_url])

\* lines 133-139: what reading the source does. fetched is the document, or
\* the class of the exception raised by open(), requests.get(), json.load() or
\* response.json()
FetchOutcomes(license_url) ==
    IF license_url.scheme = "file://"
    THEN {"OSError", "ValueError"}
    ELSE {"RequestException", "ValueError", "RequestsJSONDecodeError"}

\* LicenseRegister.load_licenses: the list of License records, or the exception
load_licenses(license_url, fetched) ==
    IF "raised" \in DOMAIN fetched
    THEN IF fetched.raised \in {"RequestException", "RequestsJSONDecodeError"}
         THEN Raise("Exception",
                    [msg |-> "Couldn't get the licenses file {}: {}", url |-> license_url])
         ELSE IF fetched.raised = "ValueError"
         THEN Raise("Exception",
                    [msg |-> "Couldn't parse the licenses file {}: {}", url |-> license_url])
         ELSE Raise(fetched.raised, [msg |-> "No such file or directory",
                                     filename |-> license_url.rest])
    ELSE LET it == Iterate(fetched.doc) IN
         IF ~it.ok THEN it
         ELSE LET t == TranslateTitles(fetched.doc, it.val, 1) IN
              IF ~t.ok THEN t
              ELSE _create_license_list(t.val, license_url)

\* the class Exception, the default of __getitem__'s second parameter
ExceptionClass == [class |-> "Exception"]

Ref(i) == [ref |-> i]

\* LicenseRegister.__getitem__(key, default), from position i on
RECURSIVE LicenseRegister_getitem_from(_, _, _, _)
LicenseRegister_getitem_from(list, i, key, default) ==
    IF i > Len(list)
    THEN IF default # ExceptionClass THEN Ok(default)
         ELSE Raise("KeyError", [msg |-> "License not found: %s", key |-> key])
    ELSE LET id == GetAttr(list[i], "id") IN
         IF ~id.ok THEN id
         ELSE IF key = id.val THEN Ok(Ref(i))
         ELSE LicenseRegister_getitem_from(list, i + 1, key, default)

LicenseRegister_getitem(list, key, default) ==
    LicenseRegister_getitem_from(list, 1, key, default)

\* LicenseRegister.get
LicenseRegister_get(list, key, default) == LicenseRegister_getitem(list, key, default)

\* LicenseRegister.keys
RECURSIVE LicenseRegister_keys(_)
LicenseRegister_keys(list) ==
    IF list = <<>> THEN Ok(<<>>)
    ELSE LET id == GetAttr(Head(list), "id") IN
         IF ~id.ok THEN id
         ELSE LET t == LicenseRegister_keys(Tail(list)) IN
              IF ~t.ok THEN t ELSE Ok(<<id.val>> \o t.val)

\* LicenseRegister.values: the list itself
LicenseRegister_values(list) == Ok([i \in DOMAIN list |-> Ref(i)])

\* LicenseRegister.items
LicenseRegister_items(list) ==
    LET k == LicenseRegister_keys(list) IN
    IF ~k.ok THEN k ELSE Ok([i \in DOMAIN list |-> <<k.val[i], Ref(i)>>])

\* LicenseRegister.__len__
LicenseRegister_len(list) == Ok(Len(list))

(***************************************************************************)
(* SpecCatalog: one LicenseRegister                                        *)
(***************************************************************************)
\* the descriptors of the documents: with and without id, with and without title
CatalogDescriptors ==
    {Dict("id" :> "a"),
     Dict("id" :> "b" @@ "title" :> "Title"),
     Dict("title" :> ""),
     Dict("id" :> "a" @@ "title" :> "Title"),
     Dict("id" :> "a" @@ "is_okd_compliant" :> JStr("maybe"))}

Elements == CatalogDescriptors \cup {JStr("a"), JNum(1)}

SeqsUpTo(S, n) == UNION {[1..m -> S] : m \in 0..n}

\* the key of the i-th member of a JSON object
ObjectKeys == <<"a", "b", "c", "d">>

Documents ==
    {JList(e) : e \in SeqsUpTo(Elements, MaxDocLen)}
        \cup {JObject([i \in DOMAIN e |-> [key |-> ObjectKeys[i], value |-> e[i]]]) :
                e \in SeqsUpTo(Elements, MaxDocLen)}
        \cup {JNum(5), JStr(""), JStr("a"), JBool(TRUE), None}

Fetched(license_url) ==
    {[raised |-> e] : e \in FetchOutcomes(license_url)}
        \cup {[doc |-> d] : d \in Documents}

\* what was fetched, in one word: the exception class, or the JSON type
Kind(fetched) ==
    IF "raised" \in DOMAIN fetched THEN fetched.raised
    ELSE IF "list" \in DOMAIN fetched.doc THEN "list"
    ELSE IF "dict" \in DOMAIN fetched.doc THEN "dict"
    ELSE IF "num" \in DOMAIN fetched.doc THEN "number"
    ELSE IF "str" \in DOMAIN fetched.doc THEN "string"
    ELSE IF "bool" \in DOMAIN fetched.doc THEN "boolean"
    ELSE "null"

\* every way load_licenses(license_url) can end
LoadOutcomes(license_url) ==
    {[kind |-> Kind(f), res |-> load_licenses(license_url, f)] : f \in Fetched(license_url)}

FileOutcomes == LoadOutcomes(FileUrl)
HttpOutcomes == LoadOutcomes(HttpUrl)
Outcomes(license_url) == IF license_url = FileUrl THEN FileOutcomes ELSE HttpOutcomes

BuiltinIds == {default_license_list[i].attrs["id"] : i \in DOMAIN default_license_list}

\* the ids the records of a list answer with
IdsOf(list) ==
    {GetAttr(list[i], "id").val : i \in {j \in DOMAIN list : GetAttr(list[j], "id").ok}}

\* the keys looked up: the ids of the register, and ids it may not hold
LookupKeys(list) == {"a", "b", "nonexistent-id"} \cup IdsOf(list)

Defaults == {None, JStr("fallback"), ExceptionClass}

InitCatalog ==
    /\ pc = "new"
    /\ desc = Unset
    /\ lic = Unset
    /\ config \in {None, EmptyUrl, FileUrl, HttpUrl}
    /\ licenses = Unset
    /\ origin = "unset"
    /\ last = NoCall
    /\ packages = {}
    /\ extras = EmptyDict
    /\ col = EmptyDict
    /\ nextId = 1

\* LicenseRegister.__init__ with no licenses_group_url
RegisterInitDefault ==
    /\ pc = "new"
    /\ ~Truthy(config)
    /\ LET r == _create_license_list(JList(default_license_list), "") IN
       /\ licenses' = IF r.ok THEN r.val ELSE licenses
       /\ origin' = IF r.ok THEN "builtin" ELSE origin
       /\ pc' = IF r.ok THEN "ready" ELSE "failed"
       /\ last' = Call("LicenseRegister", [url |-> config, fetched |-> "default"],
                       IF r.ok THEN Ok(None) ELSE r)
    /\ UNCHANGED <<desc, lic, config, extrasVars>>

\* LicenseRegister.__init__ with a licenses_group_url
RegisterInitLoad ==
    /\ pc = "new"
    /\ Truthy(config)
    /\ \E o \in Outcomes(config) :
          /\ licenses' = IF o.res.ok THEN o.res.val ELSE licenses
          /\ origin' = IF o.res.ok THEN "loaded" ELSE origin
          /\ pc' = IF o.res.ok THEN "ready" ELSE "failed"
          /\ last' = Call("LicenseRegister", [url |-> config, fetched |-> o.kind],
                          IF o.res.ok THEN Ok(None) ELSE o.res)
    /\ UNCHANGED <<desc, lic, config, extrasVars>>

\* register.load_licenses(url), called on a constructed register
LoadLicenses ==
    /\ pc = "ready"
    /\ \E license_url \in {FileUrl, HttpUrl} : \E o \in Outcomes(license_url) :
          /\ licenses' = IF o.res.ok THEN o.res.val ELSE licenses
          /\ origin' = IF o.res.ok THEN "loaded" ELSE origin
          /\ last' = Call("load_licenses", [url |-> license_url, fetched |-> o.kind],
                          IF o.res.ok THEN Ok(None) ELSE o.res)
    /\ UNCHANGED <<recordVars, config, extrasVars>>

\* a reading method that drops the first record of the list
Reads_Drops(op, arg, res) ==
    /\ pc = "ready"
    /\ last' = Call(op, arg, res)
    /\ licenses' = IF licenses = <<>> THEN licenses ELSE Tail(licenses)
    /\ UNCHANGED <<recordVars, config, origin, extrasVars>>

\* a method that reads the register
Reads(op, arg, res) ==
    /\ pc = "ready"
    /\ last' = Call(op, arg, res)
    /\ UNCHANGED <<recordVars, catalogVars, extrasVars>>

\* register.get(key) and register.get(key, default)
Get ==
    /\ pc = "ready"
    /\ \E key \in LookupKeys(licenses), default \in Defaults :
        Reads("get", [key |-> key, default |-> default],
              LicenseRegister_get(licenses, key, default))

\* register[key]
GetItem ==
    /\ pc = "ready"
    /\ \E key \in LookupKeys(licenses) :
        Reads("getitem", [key |-> key],
              LicenseRegister_getitem(licenses, key, ExceptionClass))

Keys == Reads("keys", None, LicenseRegister_keys(licenses))

Values == Reads("values", None, LicenseRegister_values(licenses))

Items == Reads("items", None, LicenseRegister_items(licenses))

\* iter(register): the iterator of keys()
Iter == Reads("iter", None, LicenseRegister_keys(licenses))

LenOf == Reads("len", None, LicenseRegister_len(licenses))

NextCatalog ==
    \/ RegisterInitDefault
    \/ RegisterInitLoad
    \/ LoadLicenses
    \/ Get
    \/ GetItem
    \/ Keys
    \/ Values
    \/ Items
    \/ Iter
    \/ LenOf

SpecCatalog == InitCatalog /\ [][NextCatalog]_vars

(***************************************************************************)
(* PackageExtra and Package.extras                                         *)
(***************************************************************************)
MaxExtras == 3

\* six.text_type(key): str(key)
text_type(key) == IF IsStr(key) THEN key.str ELSE ToString(key.num)

\* _create_extra(key, value): a PackageExtra that belongs to no package yet
_create_extra(key, value) == [package |-> None, key |-> text_type(key), value |-> value]

\* the backref of PackageExtra.package: a record put into package._extras
\* gets that package
Backref(extra, package) == [extra EXCEPT !.package = package]

\* association_proxy('_extras', 'value', creator=_create_extra), item
\* assignment package.extras[key] = value: [extras, col, nextId] afterwards
extras_setitem(table, collection, id, key, value) ==
    IF key \in DOMAIN collection
    THEN [extras |-> [table EXCEPT ![collection[key]].value = value],
          col |-> collection,
          nextId |-> id]
    ELSE [extras |-> DictSet(table, id, _create_extra(key, value)),
          col |-> DictSet(collection, key, id),
          nextId |-> id + 1]

\* package.extras[key]: the value of the record the collection holds at key
extras_getitem(table, collection, key) ==
    IF key \in DOMAIN collection THEN Ok(table[collection[key]].value)
    ELSE Raise("KeyError", [msg |-> key])

\* the records a collection holds
InCollection(collection) == {collection[k] : k \in DOMAIN collection}

\* a relation whose cascade has no 'delete'
CascadeKeep(collection) == {}

\* cascade='all, delete, delete-orphan': the records deleted with a package
\* are those of its _extras collection
Cascade(collection) == InCollection(collection)

(***************************************************************************)
(* SpecExtras: packages and their extras                                   *)
(***************************************************************************)
PackageNames == {"p1", "p2"}

ExtraKeys == {JStr("theme"), JStr("1"), JNum(1)}

ExtraValues == {"v1", "v2"}

InitExtras ==
    /\ pc = "new"
    /\ desc = Unset
    /\ lic = Unset
    /\ config = None
    /\ licenses = Unset
    /\ origin = "unset"
    /\ last = NoCall
    /\ packages = PackageNames
    /\ extras = EmptyDict
    /\ col = [p \in PackageNames |-> EmptyDict]
    /\ nextId = 1

\* package.extras[key] = value
SetExtra ==
    \E p \in packages, key \in ExtraKeys, value \in ExtraValues :
        LET r == extras_setitem(extras, col[p], nextId, key, value) IN
        /\ r.nextId <= MaxExtras + 1
        /\ extras' = [e \in DOMAIN r.extras |->
                        IF e \in InCollection(r.col) THEN Backref(r.extras[e], p)
                        ELSE r.extras[e]]
        /\ col' = [col EXCEPT ![p] = r.col]
        /\ nextId' = r.nextId
        /\ last' = Call("extras.setitem", [package |-> p, key |-> key, value |-> value],
                        Ok(None))
        /\ UNCHANGED <<recordVars, catalogVars, packages>>

\* package.extras[key]
GetExtra ==
    \E p \in packages, key \in ExtraKeys :
        /\ last' = Call("extras.getitem", [package |-> p, key |-> key],
                        extras_getitem(extras, col[p], key))
        /\ UNCHANGED <<recordVars, catalogVars, extrasVars>>

\* del package.extras[key]: the record leaves the collection and, an orphan,
\* is deleted
DelExtra ==
    \E p \in packages, key \in ExtraKeys :
        /\ key \in DOMAIN col[p]
        /\ extras' = DictDel(extras, col[p][key])
        /\ col' = [col EXCEPT ![p] = DictDel(@, key)]
        /\ last' = Call("extras.delitem", [package |-> p, key |-> key], Ok(None))
        /\ UNCHANGED <<recordVars, catalogVars, packages, nextId>>

\* session.delete(package) and flush
RemovePackage ==
    \E p \in packages :
        LET gone == Cascade(col[p]) IN
        /\ packages' = packages \ {p}
        /\ extras' = [e \in (DOMAIN extras) \ gone |-> extras[e]]
        /\ col' = [col EXCEPT ![p] = EmptyDict]
        /\ last' = Call("delete", [package |-> p], Ok([deleted |-> gone]))
        /\ UNCHANGED <<recordVars, catalogVars, nextId>>

NextExtras ==
    \/ SetExtra
    \/ GetExtra
    \/ DelExtra
    \/ RemovePackage

SpecExtras == InitExtras /\ [][NextExtras]_vars

(***************************************************************************)
(* Properties of the License record (SpecRecord)                           *)
(***************************************************************************)
LegacyNames == {"is_okd_compliant", "is_osi_compliant"}

\* the keys data[key] answers: the items of a dict, _keys of a DefaultLicense
StoredKeys(data) == IF data.cls = "DefaultLicense" THEN _keys ELSE DOMAIN data.items

Approved(data, key) ==
    LET r == DataGetItem(data, key) IN r.ok /\ r.val = "approved"

\* C4: on every License record, built-in or loaded with any subset of the
\* recognized keys, isopen() returns TRUE when od_conformance or
\* osd_conformance is "approved" and FALSE in every other case, and the
\* memoized value is the value returned.
C4_IsopenTotal ==
    (pc = "ready" /\ last.op = "isopen") =>
        /\ last.res.ok
        /\ last.res.val = (Approved(lic.data, "od_conformance")
                           \/ Approved(lic.data, "osd_conformance"))
        /\ "_isopen" \in DOMAIN lic.inst
        /\ lic.inst["_isopen"] = last.res.val

\* the legacy key old of the descriptor holds the boolean b
HadLegacy(old, b) ==
    /\ pc = "ready"
    /\ desc.cls = "dict"
    /\ old \in DOMAIN desc.items
    /\ desc.items[old] = JBool(b)

LegacyRoundTrip(old, new) ==
    \A b \in BOOLEAN :
        HadLegacy(old, b) =>
            /\ new \in DOMAIN lic.data.items
            /\ lic.data.items[new] = (IF b THEN "approved" ELSE "")
            /\ old \notin DOMAIN lic.data.items
            /\ (last.op = "getattr" /\ last.arg = old) =>
                   (last.res.ok /\ last.res.val = b)

\* C5: a License constructed from a descriptor with is_okd_compliant = b
\* (is_osi_compliant = b), b a boolean, stores od_conformance
\* (osd_conformance) as "approved" for TRUE and "" for FALSE, no longer holds
\* the legacy key, and reading the legacy attribute returns b.
C5_LegacyRoundTrip ==
    /\ LegacyRoundTrip("is_okd_compliant", "od_conformance")
    /\ LegacyRoundTrip("is_osi_compliant", "osd_conformance")

C5_Witness ==
    /\ HadLegacy("is_okd_compliant", TRUE)
    /\ HadLegacy("is_osi_compliant", FALSE)
    /\ "osd_conformance" \in DOMAIN desc.items
    /\ desc.items["osd_conformance"] = "approved"
    /\ last.op = "getattr"
    /\ last.arg = "is_osi_compliant"
    /\ last.res = Ok(FALSE)

\* C7 as stated: reading an attribute whose name is neither a key of the
\* stored data nor a legacy name raises AttributeError.
C7_UnknownAttributeRaises ==
    (/\ pc = "ready"
     /\ last.op = "getattr"
     /\ last.arg \notin StoredKeys(lic.data)
     /\ last.arg \notin LegacyNames) =>
        (~last.res.ok /\ last.res.exc = "AttributeError")

\* the attributes the object has without __getattr__
OwnAttributes(self) == {"_data"} \cup DOMAIN self.inst \cup LicenseMethods

\* C7, amended: reading an attribute whose name is neither a key of the
\* stored data, nor a legacy name, nor an attribute the object or its class
\* has (_data, the methods, _isopen once isopen() has stored it) raises
\* AttributeError, for built-in and for loaded records.
C7_UnknownFieldRaises ==
    (/\ pc = "ready"
     /\ last.op = "getattr"
     /\ last.arg \notin StoredKeys(lic.data)
     /\ last.arg \notin LegacyNames
     /\ last.arg \notin OwnAttributes(lic)) =>
        (~last.res.ok /\ last.res.exc = "AttributeError" /\ last.res.arg = [msg |-> last.arg])

C7_Witness ==
    /\ pc = "ready"
    /\ lic.data.cls = "DefaultLicense"
    /\ last.op = "getattr"
    /\ last.arg = "nonexistent_field"
    /\ last.res = Raise("AttributeError", [msg |-> "nonexistent_field"])

(***************************************************************************)
(* Properties of the LicenseRegister (SpecCatalog)                         *)
(***************************************************************************)
\* the record at position i answers `license.id` with key
HasId(list, i, key) ==
    LET id == GetAttr(list[i], "id") IN id.ok /\ id.val = key

Matches(list, key) == {i \in DOMAIN list : HasId(list, i, key)}

FirstMatch(list, key) == CHOOSE i \in Matches(list, key) : \A j \in Matches(list, key) : i <= j

\* C1: get(id, default) never fails, for every register, id and default: it
\* returns the first record whose id matches when there is one, and the
\* default that was passed otherwise.
C1_GetNeverFails ==
    (pc = "ready" /\ last.op = "get") =>
        /\ last.res.ok
        /\ IF Matches(licenses, last.arg.key) # {}
           THEN last.res.val = Ref(FirstMatch(licenses, last.arg.key))
           ELSE last.res.val = last.arg.default

\* C2: register[id] returns the first record, in insertion order, whose id
\* equals the key, and raises KeyError carrying the key exactly when no
\* record of the register has that id.
C2_GetItemFirstMatch ==
    (pc = "ready" /\ last.op = "getitem") =>
        IF Matches(licenses, last.arg.key) # {}
        THEN last.res = Ok(Ref(FirstMatch(licenses, last.arg.key)))
        ELSE /\ ~last.res.ok
             /\ last.res.exc = "KeyError"
             /\ last.res.arg.key = last.arg.key

\* the source could not be fetched, could not be parsed, or is no list and
\* no mapping
BadSource(fetched) ==
    fetched \in {"OSError", "RequestException", "ValueError",
                 "RequestsJSONDecodeError", "number", "string", "boolean", "null"}

\* C3: constructing a register from a source that cannot be fetched, cannot
\* be parsed as JSON, or holds neither a list nor a mapping raises a
\* construction error that carries the source locator, and the register
\* holds no licenses.
C3_ConstructionErrorCarriesLocator ==
    (last.op = "LicenseRegister" /\ BadSource(last.arg.fetched)) =>
        /\ pc = "failed"
        /\ ~last.res.ok
        /\ last.res.exc \in {"Exception", "ValueError"}
        /\ "url" \in DOMAIN last.res.arg
        /\ last.res.arg.url = config
        /\ licenses = Unset

\* C6 as stated: once constructed, the register's list of records never
\* changes, whatever public method is called.
C6_NeverChanges == [][pc = "ready" => licenses' = licenses]_vars

ReadOps == {"get", "getitem", "keys", "values", "items", "iter", "len"}

\* C6, amended: get, indexed access, keys, values, items, iteration and len
\* leave the register's list of records as it was; load_licenses, which is
\* public too, replaces it.
C6_ReadsLeaveUnchanged ==
    [][(pc = "ready" /\ last'.op \in ReadOps) => licenses' = licenses]_vars

C6_Witness ==
    /\ pc = "ready"
    /\ origin = "loaded"
    /\ Len(licenses) = 2
    /\ last.op = "get"
    /\ last.arg.key = "b"
    /\ last.res = Ok(Ref(2))

\* the ids of the built-in licenses, in the order of the built-in list
ExpectedBuiltinIds ==
    <<"notspecified", "odc-pddl", "odc-odbl", "odc-by", "cc-zero", "cc-by",
      "cc-by-sa", "gfdl", "other-open", "other-pd", "other-at", "uk-ogl",
      "cc-nc", "other-nc", "other-closed">>

\* C8: a register constructed with no external source holds exactly the 15
\* built-in ids, in the built-in order and pairwise distinct, and indexed
\* lookup of each of them returns the record with that id.
C8_BuiltinCatalog ==
    (pc = "ready" /\ origin = "builtin") =>
        /\ Len(ExpectedBuiltinIds) = 15
        /\ LicenseRegister_keys(licenses) = Ok(ExpectedBuiltinIds)
        /\ \A i, j \in DOMAIN ExpectedBuiltinIds :
              i # j => ExpectedBuiltinIds[i] # ExpectedBuiltinIds[j]
        /\ \A i \in DOMAIN ExpectedBuiltinIds :
              /\ LicenseRegister_getitem(licenses, ExpectedBuiltinIds[i], ExceptionClass)
                    = Ok(Ref(i))
              /\ GetAttr(licenses[i], "id") = Ok(ExpectedBuiltinIds[i])
        /\ (last.op = "getitem" /\ last.arg.key \in BuiltinIds) =>
              /\ last.res.ok
              /\ GetAttr(licenses[last.res.val.ref], "id") = Ok(last.arg.key)
        /\ (last.op = "keys") => last.res = Ok(ExpectedBuiltinIds)

C8_Witness ==
    /\ pc = "ready"
    /\ origin = "builtin"
    /\ last.op = "getitem"
    /\ last.arg.key = "other-closed"
    /\ last.res = Ok(Ref(15))

(***************************************************************************)
(* Properties of the package extras (SpecExtras)                           *)
(***************************************************************************)
\* the records of package p with key k
RecordsOf(p, k) == {e \in DOMAIN extras : extras[e].package = p /\ extras[e].key = k}

\* C9: after any sequence of writes through Package.extras a package has at
\* most one PackageExtra record per key; a write creates a record bound to
\* the package when the key has none and sets the value of the record it has
\* otherwise, and the view returns the value last written.
C9_OneRecordPerKey ==
    /\ \A p \in PackageNames : \A e \in DOMAIN extras :
          Cardinality(RecordsOf(p, extras[e].key)) <= 1
    /\ (last.op = "extras.setitem") =>
          /\ extras_getitem(extras, col[last.arg.package], last.arg.key)
                = Ok(last.arg.value)
          /\ RecordsOf(last.arg.package, text_type(last.arg.key)) # {}

\* C10: no PackageExtra record belongs to a removed package, and removing a
\* package leaves the records of the other packages as they were.
C10_CascadeDelete ==
    [][/\ \A e \in DOMAIN extras' : extras'[e].package \in packages'
       /\ (last'.op = "delete" /\ packages' # packages) =>
             \A e \in DOMAIN extras :
                extras[e].package \in packages' =>
                    (e \in DOMAIN extras' /\ extras'[e] = extras[e])]_vars

C10_Witness ==
    /\ last.op = "delete"
    /\ last.arg.package = "p1"
    /\ Cardinality(last.res.val.deleted) = 2
    /\ packages = {"p2"}
    /\ \E e \in DOMAIN extras : extras[e].package = "p2"

====
